---- MODULE Spec2Model ----
(***************************************************************************)
(* Model of the wrangler version upload/deploy action: the orchestrator    *)
(* run() with its three external process invocations, and the pure helpers *)
(* renderTemplate, splitArgs, parseVersionIdFromUpload,                    *)
(* parseWranglerOutput and buildDefaultMessage.                            *)
(*                                                                         *)
(* JavaScript strings are TLA+ strings; Len, \o and SubSeq act on them.    *)
(* An optional value (string | undefined) is a tuple: <<>> is undefined,   *)
(* <<s>> is the string s.                                                  *)
(***************************************************************************)
EXTENDS Integers, Sequences, FiniteSets, TLC

VARIABLES
  inputs,          \* the action inputs (INPUT_* environment), "" when not supplied
  env,             \* the GITHUB_* environment, <<>> when a variable is unset
  pc,              \* position of run(): start, git, uploading, deploying, done
  running,         \* the external processes started and not yet ended
  execLog,         \* every exec.exec call so far, in order: [tool, args, token, cwd]
  gitMessage,      \* `message` of getLastCommitMessage
  gitExit,         \* how git log ended: <<>> until then, <<code>> after
  metadata,        \* result of collectMetadata
  renderedMessage,
  renderedTag,
  uploadStdout,
  uploadStderr,
  uploadExit,      \* how the upload process ended: <<>> until then, <<code>> after
  versionId,       \* optional
  deployStdout,
  deployStderr,
  deployExit,      \* how the deploy process ended: <<>> until then, <<code>> after
  uploadWritten,   \* the chunks the upload process has written to stdout, in order
  deployWritten,   \* the chunks the deploy process has written to stdout, in order
  chunks,          \* chunks the running process has written so far
  outputs,         \* core.setOutput: output name -> optional value
  failures,        \* core.setFailed calls so far, in order
  rtTemplate,      \* renderTemplate called on its own: the template
  rtContext,       \* renderTemplate called on its own: the context
  rtResult,        \* renderTemplate called on its own: <<>> before the call, <<result>> after
  fnName,          \* a helper called on its own: which one, "" when none
  fnInput,         \* a helper called on its own: its argument
  fnResult         \* a helper called on its own: <<>> before the call, <<result>> after

runVars == <<inputs, env, pc, running, execLog, gitMessage, gitExit, metadata,
             renderedMessage, renderedTag, uploadStdout, uploadStderr,
             uploadExit, versionId, deployStdout, deployStderr, deployExit,
             uploadWritten, deployWritten, chunks, outputs, failures>>
rtVars == <<rtTemplate, rtContext, rtResult>>
fnVars == <<fnName, fnInput, fnResult>>
vars == <<runVars, rtVars, fnVars>>

(***************************************************************************)
(* Strings                                                                 *)
(***************************************************************************)
\* s.substring(a - 1, b) in 1-based inclusive indices, clamped to the string
Sub(s, a, b) ==
  LET lo == IF a < 1 THEN 1 ELSE a
      hi == IF b > Len(s) THEN Len(s) ELSE b
  IN  IF lo > hi THEN "" ELSE SubSeq(s, lo, hi)

Ch(s, i) == Sub(s, i, i)

WhiteSpace == {" ", "\t", "\n", "\r", "\f"}

UpperLetters == "ABCDEFGHIJKLMNOPQRSTUVWXYZ"
LowerLetters == "abcdefghijklmnopqrstuvwxyz"
Digits == "0123456789"

CharsOf(s) == {Ch(s, i) : i \in 1..Len(s)}

NameChars == CharsOf(UpperLetters) \cup CharsOf(LowerLetters) \cup CharsOf(Digits) \cup {"_"}

HexChars == CharsOf(Digits) \cup CharsOf("abcdefABCDEF") \cup {"-"}

\* first index >= i of s whose character is not in the class (Len(s)+1 when none)
RECURSIVE SkipClass(_, _, _)
SkipClass(s, i, class) ==
  IF i <= Len(s) /\ Ch(s, i) \in class THEN SkipClass(s, i + 1, class) ELSE i

RECURSIVE LastNonSpace(_, _)
LastNonSpace(s, i) ==
  IF i >= 1 /\ Ch(s, i) \in WhiteSpace THEN LastNonSpace(s, i - 1) ELSE i

TrimEnd(s) == Sub(s, 1, LastNonSpace(s, Len(s)))
Trim(s) == LET t == TrimEnd(s) IN Sub(t, SkipClass(t, 1, WhiteSpace), Len(t))

LowerChar(c) ==
  IF \E i \in 1..26 : Ch(UpperLetters, i) = c
    THEN Ch(LowerLetters, CHOOSE i \in 1..26 : Ch(UpperLetters, i) = c)
    ELSE c

RECURSIVE ToLowerCase(_)
ToLowerCase(s) ==
  IF s = "" THEN "" ELSE LowerChar(Ch(s, 1)) \o ToLowerCase(Sub(s, 2, Len(s)))

StartsWith(s, p) == Len(s) >= Len(p) /\ Sub(s, 1, Len(p)) = p

\* s.substring(0, n) and s.slice(0, n) for 0 <= n
Prefix(s, n) == Sub(s, 1, IF n < Len(s) THEN n ELSE Len(s))

\* index of the first occurrence of p in s at or after i, 0 when none
RECURSIVE IndexOf(_, _, _)
IndexOf(s, p, i) ==
  IF i + Len(p) - 1 > Len(s) THEN 0
  ELSE IF Sub(s, i, i + Len(p) - 1) = p THEN i
  ELSE IndexOf(s, p, i + 1)

\* s.split(sep) for a non-empty separator
RECURSIVE Split(_, _)
Split(s, sep) ==
  LET k == IndexOf(s, sep, 1) IN
  IF k = 0 THEN <<s>>
  ELSE <<Sub(s, 1, k - 1)>> \o Split(Sub(s, k + Len(sep), Len(s)), sep)

\* a || b on strings: the empty string is falsy
OrElse(a, b) == IF a # "" THEN a ELSE b

\* optional values
Undefined == <<>>
Some(s) == <<s>>
IsDefined(o) == o # <<>>
\* truthiness of string | undefined
Truthy(o) == o # <<>> /\ o[1] # ""
\* o || "" for an optional string
OrEmpty(o) == IF Truthy(o) THEN o[1] ELSE ""

(***************************************************************************)
(* renderTemplate                                                          *)
(***************************************************************************)
\* The properties every object literal inherits from Object.prototype, with
\* String(value) of each: context[key] finds them when key is no own property.
ObjectPrototype ==
  [k \in {"constructor", "toString", "valueOf", "hasOwnProperty", "__proto__"} |->
     IF k = "__proto__" THEN "[object Object]"
     ELSE "function " \o (IF k = "constructor" THEN "Object" ELSE k)
          \o "() { [native code] }"]

\* context[key], as String(value) when the value is not undefined
PropertyRead(context, key) ==
  IF key \in DOMAIN context THEN context[key]
  ELSE IF key \in DOMAIN ObjectPrototype THEN Some(ObjectPrototype[key])
  ELSE Undefined

\* Replacer without the test for undefined: String(undefined)
Replacer_StringOfUndefined(context, key) ==
  LET value == PropertyRead(context, key) IN
  IF value # Undefined THEN value[1] ELSE "undefined"

\* the replacer callback: value !== undefined ? String(value) : ""
Replacer(context, key) ==
  LET value == PropertyRead(context, key) IN
  IF value # Undefined THEN value[1] ELSE ""

\* /{{\s*([a-zA-Z0-9_]+)\s*}}/ tried at index i of s. The three classes are
\* disjoint, so the greedy match is the only one.
MatchPlaceholder(s, i) ==
  LET j == SkipClass(s, i + 2, WhiteSpace)
      k == SkipClass(s, j, NameChars)
      l == SkipClass(s, k, WhiteSpace)
  IN  [ok |-> /\ Sub(s, i, i + 1) = "{{"
              /\ k > j
              /\ Sub(s, l, l + 1) = "}}",
       key |-> Sub(s, j, k - 1),
       next |-> l + 2]

\* RenderFrom with a pattern that lacks the g flag: only the first match is replaced
RECURSIVE RenderFrom_FirstOnly(_, _, _)
RenderFrom_FirstOnly(s, i, context) ==
  IF i > Len(s) THEN ""
  ELSE LET m == MatchPlaceholder(s, i) IN
       IF m.ok THEN Replacer(context, m.key) \o Sub(s, m.next, Len(s))
       ELSE Ch(s, i) \o RenderFrom_FirstOnly(s, i + 1, context)

\* RenderFrom that scans the inserted value again
RECURSIVE RenderFrom_Rescan(_, _, _)
RenderFrom_Rescan(s, i, context) ==
  IF i > Len(s) THEN ""
  ELSE LET m == MatchPlaceholder(s, i) IN
       IF m.ok
         THEN RenderFrom_Rescan(Replacer(context, m.key) \o Sub(s, m.next, Len(s)), 1, context)
         ELSE Ch(s, i) \o RenderFrom_Rescan(s, i + 1, context)

\* String.prototype.replace with a global pattern: leftmost matches, left to
\* right, each scan resuming after the previous match
RECURSIVE RenderFrom(_, _, _)
RenderFrom(s, i, context) ==
  IF i > Len(s) THEN ""
  ELSE LET m == MatchPlaceholder(s, i) IN
       IF m.ok THEN Replacer(context, m.key) \o RenderFrom(s, m.next, context)
       ELSE Ch(s, i) \o RenderFrom(s, i + 1, context)

renderTemplate(template, context) == RenderFrom(template, 1, context)

(***************************************************************************)
(* splitArgs                                                               *)
(***************************************************************************)
\* the for loop: quote is "" for null
\* SplitLoop where a closing quote ends the token instead of going on with it
RECURSIVE SplitLoop_QuoteEndsToken(_, _, _, _, _)
SplitLoop_QuoteEndsToken(raw, i, current, quote, args) ==
  IF i > Len(raw) THEN (IF current # "" THEN Append(args, current) ELSE args)
  ELSE LET ch == Ch(raw, i) IN
       IF quote # ""
         THEN IF ch = quote
                THEN SplitLoop_QuoteEndsToken(raw, i + 1, "", "",
                       IF current # "" THEN Append(args, current) ELSE args)
              ELSE SplitLoop_QuoteEndsToken(raw, i + 1, current \o ch, quote, args)
       ELSE IF ch = "'" \/ ch = "\"" THEN SplitLoop_QuoteEndsToken(raw, i + 1, current, ch, args)
       ELSE IF ch \in WhiteSpace
         THEN IF current # ""
                THEN SplitLoop_QuoteEndsToken(raw, i + 1, "", quote, Append(args, current))
              ELSE SplitLoop_QuoteEndsToken(raw, i + 1, current, quote, args)
       ELSE SplitLoop_QuoteEndsToken(raw, i + 1, current \o ch, quote, args)

\* SplitLoop that gives up the pending token when the input ends inside a quote
RECURSIVE SplitLoop_DropsOpenQuote(_, _, _, _, _)
SplitLoop_DropsOpenQuote(raw, i, current, quote, args) ==
  IF i > Len(raw) THEN (IF current # "" /\ quote = "" THEN Append(args, current) ELSE args)
  ELSE LET ch == Ch(raw, i) IN
       IF quote # ""
         THEN IF ch = quote THEN SplitLoop_DropsOpenQuote(raw, i + 1, current, "", args)
              ELSE SplitLoop_DropsOpenQuote(raw, i + 1, current \o ch, quote, args)
       ELSE IF ch = "'" \/ ch = "\"" THEN SplitLoop_DropsOpenQuote(raw, i + 1, current, ch, args)
       ELSE IF ch \in WhiteSpace
         THEN IF current # ""
                THEN SplitLoop_DropsOpenQuote(raw, i + 1, "", quote, Append(args, current))
              ELSE SplitLoop_DropsOpenQuote(raw, i + 1, current, quote, args)
       ELSE SplitLoop_DropsOpenQuote(raw, i + 1, current \o ch, quote, args)

\* SplitLoop that keeps the opening and the closing quote in the token
RECURSIVE SplitLoop_KeepsDelimiters(_, _, _, _, _)
SplitLoop_KeepsDelimiters(raw, i, current, quote, args) ==
  IF i > Len(raw) THEN (IF current # "" THEN Append(args, current) ELSE args)
  ELSE LET ch == Ch(raw, i) IN
       IF quote # ""
         THEN IF ch = quote
                THEN SplitLoop_KeepsDelimiters(raw, i + 1, current \o ch, "", args)
                ELSE SplitLoop_KeepsDelimiters(raw, i + 1, current \o ch, quote, args)
       ELSE IF ch = "'" \/ ch = "\""
         THEN SplitLoop_KeepsDelimiters(raw, i + 1, current \o ch, ch, args)
       ELSE IF ch \in WhiteSpace
         THEN IF current # ""
                THEN SplitLoop_KeepsDelimiters(raw, i + 1, "", quote, Append(args, current))
                ELSE SplitLoop_KeepsDelimiters(raw, i + 1, current, quote, args)
       ELSE SplitLoop_KeepsDelimiters(raw, i + 1, current \o ch, quote, args)

RECURSIVE SplitLoop(_, _, _, _, _)
SplitLoop(raw, i, current, quote, args) ==
  IF i > Len(raw) THEN (IF current # "" THEN Append(args, current) ELSE args)
  ELSE LET ch == Ch(raw, i) IN
       IF quote # ""
         THEN IF ch = quote
                THEN SplitLoop(raw, i + 1, current, "", args)
                ELSE SplitLoop(raw, i + 1, current \o ch, quote, args)
       ELSE IF ch = "'" \/ ch = "\""
         THEN SplitLoop(raw, i + 1, current, ch, args)
       ELSE IF ch \in WhiteSpace
         THEN IF current # ""
                THEN SplitLoop(raw, i + 1, "", quote, Append(args, current))
                ELSE SplitLoop(raw, i + 1, current, quote, args)
       ELSE SplitLoop(raw, i + 1, current \o ch, quote, args)

splitArgs(raw) == IF Trim(raw) = "" THEN <<>> ELSE SplitLoop(raw, 1, "", "", <<>>)

(***************************************************************************)
(* Output extraction                                                       *)
(***************************************************************************)
VersionLabel == "Worker Version ID:"

\* MatchVersionId with the i flag on the pattern: the label in any case
MatchVersionId_AnyCase(s, i) ==
  LET j == SkipClass(s, i + Len(VersionLabel), WhiteSpace)
      k == SkipClass(s, j, HexChars)
  IN  [ok |-> /\ ToLowerCase(Sub(s, i, i + Len(VersionLabel) - 1)) = ToLowerCase(VersionLabel)
              /\ k > j,
       id |-> Sub(s, j, k - 1)]

\* /Worker Version ID:\s*([0-9a-fA-F-]+)/ tried at index i
MatchVersionId(s, i) ==
  LET j == SkipClass(s, i + Len(VersionLabel), WhiteSpace)
      k == SkipClass(s, j, HexChars)
  IN  [ok |-> Sub(s, i, i + Len(VersionLabel) - 1) = VersionLabel /\ k > j,
       id |-> Sub(s, j, k - 1)]

RECURSIVE VersionIdFrom(_, _)
VersionIdFrom(s, i) ==
  IF i > Len(s) THEN Undefined
  ELSE LET m == MatchVersionId(s, i) IN
       IF m.ok THEN Some(m.id) ELSE VersionIdFrom(s, i + 1)

parseVersionIdFromUpload(output) == VersionIdFrom(output, 1)

\* UrlEnd for the pattern /https?:\/\/\S+/: a double quote does not end the URL
RECURSIVE UrlEnd_SpaceOnly(_, _)
UrlEnd_SpaceOnly(s, i) ==
  IF i <= Len(s) /\ Ch(s, i) \notin WhiteSpace THEN UrlEnd_SpaceOnly(s, i + 1) ELSE i

\* first index >= i of s whose character is whitespace or a double quote
RECURSIVE UrlEnd(_, _)
UrlEnd(s, i) ==
  IF i <= Len(s) /\ Ch(s, i) \notin WhiteSpace \cup {"\""} THEN UrlEnd(s, i + 1) ELSE i

\* /https?:\/\/[^\s"]+/ tried at index i
MatchUrl(s, i) ==
  LET j == IF Sub(s, i, i + 7) = "https://" THEN i + 8
           ELSE IF Sub(s, i, i + 6) = "http://" THEN i + 7
           ELSE 0
      k == UrlEnd(s, j)
  IN  [ok |-> j > 0 /\ k > j, url |-> Sub(s, i, k - 1)]

RECURSIVE UrlFrom(_, _)
UrlFrom(s, i) ==
  IF i > Len(s) THEN Undefined
  ELSE LET m == MatchUrl(s, i) IN
       IF m.ok THEN Some(m.url) ELSE UrlFrom(s, i + 1)

\* the deploymentUrl field of the result
parseWranglerOutput(output) == UrlFrom(output, 1)

(***************************************************************************)
(* Metadata and the default message                                        *)
(***************************************************************************)
MaxMessageLength == 100
ShortShaLength == 7
FallbackShaLength == 6
BranchRefPrefix == "refs/heads/"

\* getLastCommitMessage after exec resolved: message.trim(), undefined when empty
CommitMessageOf(message) ==
  LET trimmed == Trim(message) IN
  IF Len(trimmed) > 0 THEN Some(trimmed) ELSE Undefined

\* collectMetadata, given the result of getLastCommitMessage
collectMetadata(e, commit_message) ==
  LET repoFull == e.GITHUB_REPOSITORY
      parts == IF Truthy(repoFull) THEN Split(repoFull[1], "/") ELSE <<>>
      sha == e.GITHUB_SHA
      ref == e.GITHUB_REF
  IN  [owner |-> IF Len(parts) >= 1 THEN Some(parts[1]) ELSE Undefined,
       repo |-> IF Len(parts) >= 2 THEN Some(parts[2]) ELSE Undefined,
       ref |-> ref,
       branch |-> IF Truthy(ref) /\ StartsWith(ref[1], BranchRefPrefix)
                    THEN Some(Sub(ref[1], Len(BranchRefPrefix) + 1, Len(ref[1])))
                    ELSE Undefined,
       sha |-> sha,
       short_sha |-> IF Truthy(sha) THEN Some(Prefix(sha[1], ShortShaLength))
                     ELSE Undefined,
       actor |-> e.GITHUB_ACTOR,
       run_id |-> e.GITHUB_RUN_ID,
       run_number |-> e.GITHUB_RUN_NUMBER,
       commit_message |-> commit_message,
       short_commit_message |->
         IF Truthy(commit_message) THEN Some(Split(commit_message[1], "\n")[1])
         ELSE Undefined]

\* buildDefaultMessage that cuts the commit message, not the whole message
buildDefaultMessage_CutsCommitMessage(meta) ==
  LET branch == OrEmpty(meta.branch)
      shortSha == IF Truthy(meta.short_sha) THEN meta.short_sha[1]
                  ELSE IF Truthy(meta.sha) THEN Prefix(meta.sha[1], FallbackShaLength)
                  ELSE ""
      baseMessage == IF Truthy(meta.short_commit_message)
                       THEN meta.short_commit_message[1]
                       ELSE OrEmpty(meta.commit_message)
      prefix == IF branch # ""
                  THEN (IF shortSha # "" THEN branch \o "@" \o shortSha ELSE branch)
                  ELSE shortSha
      cut == Prefix(baseMessage, MaxMessageLength)
  IN  IF prefix # "" THEN prefix \o ": " \o cut ELSE cut

buildDefaultMessage(meta) ==
  LET branch == OrEmpty(meta.branch)
      shortSha == IF Truthy(meta.short_sha) THEN meta.short_sha[1]
                  ELSE IF Truthy(meta.sha) THEN Prefix(meta.sha[1], FallbackShaLength)
                  ELSE ""
      baseMessage == IF Truthy(meta.short_commit_message)
                       THEN meta.short_commit_message[1]
                       ELSE OrEmpty(meta.commit_message)
      prefix == IF branch # ""
                  THEN (IF shortSha # "" THEN branch \o "@" \o shortSha ELSE branch)
                  ELSE shortSha
      combined == IF prefix # "" THEN prefix \o ": " \o baseMessage ELSE baseMessage
  IN  Prefix(combined, MaxMessageLength)

buildDefaultTag(meta) == ""

\* s.replace(p, r) with a string pattern: the first occurrence only
ReplaceFirst(s, p, r) ==
  LET k == IndexOf(s, p, 1) IN
  IF k = 0 THEN s ELSE Sub(s, 1, k - 1) \o r \o Sub(s, k + Len(p), Len(s))

\* collectDeployMetadata of the standalone metadata module, given the result
\* of its getLastCommitMessage
collectDeployMetadata(e, commit_message) ==
  LET repoFull == e.GITHUB_REPOSITORY
      parts == IF Truthy(repoFull) THEN Split(repoFull[1], "/") ELSE <<>>
      sha == e.GITHUB_SHA
      ref == e.GITHUB_REF
  IN  [owner |-> IF Len(parts) >= 1 THEN Some(parts[1]) ELSE Undefined,
       repo |-> IF Len(parts) >= 2 THEN Some(parts[2]) ELSE Undefined,
       ref |-> ref,
       branch |-> IF Truthy(ref) /\ StartsWith(ref[1], BranchRefPrefix)
                    THEN Some(ReplaceFirst(ref[1], BranchRefPrefix, ""))
                    ELSE Undefined,
       sha |-> sha,
       short_sha |-> IF Truthy(sha) THEN Some(Prefix(sha[1], ShortShaLength))
                     ELSE Undefined,
       actor |-> e.GITHUB_ACTOR,
       run_id |-> e.GITHUB_RUN_ID,
       run_number |-> e.GITHUB_RUN_NUMBER,
       commit_message |-> commit_message,
       short_commit_message |->
         IF Truthy(commit_message) THEN Some(Trim(Split(commit_message[1], "\n")[1]))
         ELSE Undefined]

\* { ...metadata, deployment_url: undefined, version_id: undefined }
preTemplateContext(meta) ==
  [k \in DOMAIN meta \cup {"deployment_url", "version_id"} |->
     IF k \in {"deployment_url", "version_id"} THEN Undefined ELSE meta[k]]

(***************************************************************************)
(* Bounds and the inputs a run is started with                             *)
(***************************************************************************)
\* chunks one external process writes (stdout and stderr together)
MaxChunks == 2

ExitCodes == {0, 1, 2}
\* the outcome of an exec.exec call whose process could not be started
SpawnFailed == -1
\* how an exec.exec call can end once c chunks were written
ExecOutcomes(c) == IF c = 0 THEN ExitCodes \cup {SpawnFailed} ELSE ExitCodes

GitChunks == {"fix: a bug \r\n\nbody\n"}
UploadChunks == {"Worker Version", " ID: 3f", "a9-0c\n"}
\* the last one is the first two in one piece
DeployChunks ==
  {"see \"https://demo.ex", "ample.dev/x\" now\n", "see \"https://demo.example.dev/x\" now\n"}
StderrChunks == {"warning: outdated\n"}

\* message template and tag template, "" when not supplied
Templates ==
  {<<"", "">>,
   <<"{{branch}}@{{ short_sha }} {{short_commit_message}}{{version_id}}",
     "{{owner}}-{{run_number}}{{version_id}}">>,
   <<"v={{version_id}} u={{ deployment_url }}", "">>}

InputSet ==
  {[api_token |-> a, wrangler_command |-> w, working_directory |-> "",
    only_upload |-> o, config |-> c, upload_args |-> "--env 'my prod'",
    deploy_args |-> "--percentage 50", message_template |-> t[1],
    tag_template |-> t[2]] :
     a \in {"", " ", "tok"}, w \in {"", "npx wrangler"}, o \in {"", "True"},
     c \in {"", "wrangler.toml"}, t \in Templates}

EnvSet ==
  {[GITHUB_REPOSITORY |-> Some("o/r"), GITHUB_SHA |-> Some("0123456789abcdef"),
    GITHUB_REF |-> Some("refs/heads/main"), GITHUB_ACTOR |-> Some("me"),
    GITHUB_RUN_ID |-> Some("77"), GITHUB_RUN_NUMBER |-> Some("5")],
   [GITHUB_REPOSITORY |-> Undefined, GITHUB_SHA |-> Undefined,
    GITHUB_REF |-> Some("refs/tags/v1"), GITHUB_ACTOR |-> Undefined,
    GITHUB_RUN_ID |-> Undefined, GITHUB_RUN_NUMBER |-> Undefined]}

OutputNames == {"version_id", "deployment_url", "message", "tag"}

NoMetadata == collectMetadata([GITHUB_REPOSITORY |-> Undefined, GITHUB_SHA |-> Undefined,
                               GITHUB_REF |-> Undefined, GITHUB_ACTOR |-> Undefined,
                               GITHUB_RUN_ID |-> Undefined, GITHUB_RUN_NUMBER |-> Undefined],
                              Undefined)

(***************************************************************************)
(* run                                                                     *)
(***************************************************************************)
\* core.getInput(name): the trimmed value; with required: true it throws when
\* the untrimmed value is empty
getInput(name) == Trim(inputs[name])
MissingRequired(name) == inputs[name] = ""
RequiredInputs == <<"api_token", "wrangler_command", "config">>

onlyUpload == ToLowerCase(OrElse(getInput("only_upload"), "false")) = "true"
config == getInput("config")
messageTemplate == OrElse(getInput("message_template"), "")
tagTemplate == OrElse(getInput("tag_template"), "")
uploadArgsList == splitArgs(OrElse(getInput("upload_args"), ""))
deployArgsList == splitArgs(OrElse(getInput("deploy_args"), ""))
wranglerCommand == Trim(getInput("wrangler_command"))
workingDirectory ==
  LET w == OrElse(getInput("working_directory"), "") IN
  IF Len(Trim(w)) > 0 THEN Some(Trim(w)) ELSE Undefined

\* exec.exec(tool, args, options): the call as the process-execution
\* collaborator sees it
ExecCall(tool, args, token, cwd) ==
  [tool |-> tool, args |-> args, token |-> token, cwd |-> cwd]

\* exec.exec rejects when the process cannot be started and on a non-zero exit
\* code (ignoreReturnCode is not set)
ExecRejects(code) == code # 0
ExecError(tool, code) ==
  IF code = SpawnFailed THEN "Unable to locate executable file: " \o tool
  ELSE "The process '" \o tool \o "' failed with exit code " \o ToString(code)

\* uploadArgs with the message argument put through splitArgs like the extra arguments
uploadArgs_SplitMessage(message) ==
  <<"versions", "upload", "--config", config>> \o uploadArgsList
    \o splitArgs("--message=" \o message)

uploadArgs(message) ==
  <<"versions", "upload", "--config", config>> \o uploadArgsList
    \o <<"--message=" \o message>>

\* deployArgs with the extra arguments of the upload
deployArgs_UploadExtras(id, message) ==
  <<"versions", "deploy", id, "-y", "--config", config>> \o uploadArgsList
    \o <<"--message=" \o message>>

\* deployArgs with the version id after the -y flag
deployArgs_IdAfterFlag(id, message) ==
  <<"versions", "deploy", "-y", id, "--config", config>> \o deployArgsList
    \o <<"--message=" \o message>>

deployArgs(id, message) ==
  <<"versions", "deploy", id, "-y", "--config", config>> \o deployArgsList
    \o <<"--message=" \o message>>

\* String(value) of an optional string
StringOf(o) == IF IsDefined(o) THEN o[1] ELSE "undefined"

\* uploadOutcome without the check of lines 162-167
uploadOutcome_NoIdCheck(code, id) ==
  IF ExecRejects(code) THEN "throw"
  ELSE IF code # 0 THEN "exit-failed"
  ELSE IF onlyUpload THEN "upload-only"
  ELSE "deploy"

\* uploadOutcome with the exit code ignored
uploadOutcome_IgnoreExit(code, id) ==
  IF onlyUpload THEN "upload-only"
  ELSE IF ~Truthy(id) THEN "no-version-id"
  ELSE "deploy"

\* uploadOutcome without the only_upload branch
uploadOutcome_IgnoreMode(code, id) ==
  IF ExecRejects(code) THEN "throw"
  ELSE IF code # 0 THEN "exit-failed"
  ELSE IF ~Truthy(id) THEN "no-version-id"
  ELSE "deploy"

\* uploadOutcome with the version id checked before the only_upload branch
uploadOutcome_IdCheckFirst(code, id) ==
  IF ExecRejects(code) THEN "throw"
  ELSE IF code # 0 THEN "exit-failed"
  ELSE IF ~Truthy(id) THEN "no-version-id"
  ELSE IF onlyUpload THEN "upload-only"
  ELSE "deploy"

\* uploadOutcome that goes on to the deploy whenever an id was parsed, the
\* upload having failed or not
uploadOutcome_DeployAfterFailure(code, id) ==
  IF ~Truthy(id) THEN (IF onlyUpload THEN "upload-only" ELSE "no-version-id")
  ELSE IF onlyUpload THEN "upload-only"
  ELSE "deploy"

\* which way run goes once the upload has ended with code and id was parsed
uploadOutcome(code, id) ==
  IF ExecRejects(code) THEN "throw"
  ELSE IF code # 0 THEN "exit-failed"
  ELSE IF onlyUpload THEN "upload-only"
  ELSE IF ~Truthy(id) THEN "no-version-id"
  ELSE "deploy"

\* deployOutcome of a deploy run with ignoreReturnCode and no check of the code
deployOutcome_IgnoreExit(code) ==
  IF code = SpawnFailed THEN "throw" ELSE "publish"

\* which way run goes once the deploy has ended with code
deployOutcome(code) ==
  IF ExecRejects(code) THEN "throw"
  ELSE IF code # 0 THEN "exit-failed"
  ELSE "publish"

\* MessageAndTag without the two if conditions
MessageAndTag_Unconditional ==
  [message |-> Some(renderedMessage), tag |-> Some(renderedTag)]

\* if (renderedMessage) setOutput("message", ...); if (renderedTag) setOutput("tag", ...)
MessageAndTag ==
  [message |-> IF renderedMessage # "" THEN Some(renderedMessage) ELSE Undefined,
   tag |-> IF renderedTag # "" THEN Some(renderedTag) ELSE Undefined]

\* the outputs set in upload-only mode (Undefined: not set)
uploadOnlyOutputs(id) ==
  [version_id |-> IF Truthy(id) THEN id ELSE Undefined] @@ MessageAndTag

\* deployOutputs without line 232
deployOutputs_NoVersionId(id, deploymentUrl) ==
  [deployment_url |-> IF Truthy(deploymentUrl) THEN deploymentUrl ELSE Undefined]
    @@ MessageAndTag

\* deployOutputs without the condition of line 233: the URL is set, found or not
deployOutputs_UrlAlways(id, deploymentUrl) ==
  [deployment_url |-> Some(OrEmpty(deploymentUrl)), version_id |-> id] @@ MessageAndTag

\* the outputs set at the end of the full flow (Undefined: not set)
deployOutputs(id, deploymentUrl) ==
  [deployment_url |-> IF Truthy(deploymentUrl) THEN deploymentUrl ELSE Undefined,
   version_id |-> id] @@ MessageAndTag

\* SetFailed of a run without the catch block: the error leaves run and
\* nothing is reported
SetFailed_Escapes(message) ==
  /\ failures' = failures
  /\ pc' = "crashed"

\* core.setFailed(message) followed by return, or the catch block of run
SetFailed(message) ==
  /\ failures' = Append(failures, message)
  /\ pc' = "done"

\* core.setOutput for every (name, value) of the optional values in vals
SetOutputs(vals) ==
  outputs' = [n \in OutputNames |-> IF n \in DOMAIN vals /\ IsDefined(vals[n])
                                      THEN vals[n] ELSE outputs[n]]

RunInit ==
  /\ inputs \in InputSet
  /\ env \in EnvSet
  /\ pc = "start"
  /\ running = {}
  /\ execLog = <<>>
  /\ gitMessage = ""
  /\ gitExit = Undefined
  /\ metadata = NoMetadata
  /\ renderedMessage = ""
  /\ renderedTag = ""
  /\ uploadStdout = ""
  /\ uploadStderr = ""
  /\ uploadExit = Undefined
  /\ versionId = Undefined
  /\ deployStdout = ""
  /\ deployStderr = ""
  /\ deployExit = Undefined
  /\ uploadWritten = <<>>
  /\ deployWritten = <<>>
  /\ chunks = 0
  /\ outputs = [n \in OutputNames |-> Undefined]
  /\ failures = <<>>

\* startOutcome without the check of lines 50-53
startOutcome_NoTokenCheck ==
  IF \E i \in 1..Len(RequiredInputs) : MissingRequired(RequiredInputs[i]) THEN "throw"
  ELSE "collect"

\* how run gets through its inputs: the first required input that is
\* missing throws, then a blank token fails the run, else metadata is collected
startOutcome ==
  IF \E i \in 1..Len(RequiredInputs) : MissingRequired(RequiredInputs[i]) THEN "throw"
  ELSE IF getInput("api_token") = "" THEN "no-token"
  ELSE "collect"

\* run, up to the first await: the inputs are read, then collectMetadata
\* reads the environment and starts git
Start ==
  /\ pc = "start"
  /\ IF startOutcome = "throw"
       THEN LET i == CHOOSE k \in 1..Len(RequiredInputs) :
                       /\ MissingRequired(RequiredInputs[k])
                       /\ \A h \in 1..(k - 1) : ~MissingRequired(RequiredInputs[h])
            IN  /\ SetFailed("Input required and not supplied: " \o RequiredInputs[i])
                /\ UNCHANGED <<execLog, running>>
     ELSE IF startOutcome = "no-token"
       THEN /\ SetFailed("Cloudflare API token (api_token) is required.")
            /\ UNCHANGED <<execLog, running>>
     ELSE /\ execLog' = Append(execLog,
                          ExecCall("git", <<"log", "-1", "--pretty=%B">>, Undefined, Undefined))
          /\ running' = running \cup {"git"}
          /\ pc' = "git"
          /\ UNCHANGED failures
  /\ UNCHANGED <<inputs, env, gitMessage, gitExit, metadata, renderedMessage, renderedTag,
                 uploadStdout, uploadStderr, uploadExit, versionId, deployStdout,
                 deployStderr, deployExit, chunks, outputs,
                 uploadWritten, deployWritten>>

\* the stdout listener of getLastCommitMessage
GitStdout ==
  /\ pc = "git"
  /\ chunks < MaxChunks
  /\ \E data \in GitChunks : gitMessage' = gitMessage \o data
  /\ chunks' = chunks + 1
  /\ UNCHANGED <<inputs, env, pc, running, execLog, gitExit, metadata, renderedMessage,
                 renderedTag, uploadStdout, uploadStderr, uploadExit, versionId,
                 deployStdout, deployStderr, deployExit, outputs, failures,
                 uploadWritten, deployWritten>>

\* getLastCommitMessage with exec told to ignore the return code
getLastCommitMessage_IgnoresExit(code, message) ==
  IF code = SpawnFailed THEN Undefined ELSE CommitMessageOf(message)

\* what getLastCommitMessage returns once git ended with code, `message`
\* holding what its stdout listener gathered
getLastCommitMessage(code, message) ==
  IF ExecRejects(code) THEN Undefined ELSE CommitMessageOf(message)

\* git ends with code: exec resolves on exit code 0 and its rejection is
\* caught in getLastCommitMessage; then run goes on to the second await:
\* metadata, message, tag, upload arguments, upload started
GitExit ==
  /\ pc = "git"
  /\ \E code \in ExecOutcomes(chunks) :
       LET commit_message == getLastCommitMessage(code, gitMessage)
           meta == collectMetadata(env, commit_message)
           message == IF messageTemplate # ""
                        THEN renderTemplate(messageTemplate, preTemplateContext(meta))
                        ELSE buildDefaultMessage(meta)
           tag == IF tagTemplate # ""
                    THEN renderTemplate(tagTemplate, preTemplateContext(meta))
                    ELSE buildDefaultTag(meta)
       IN  /\ metadata' = meta
           /\ renderedMessage' = message
           /\ renderedTag' = tag
           /\ execLog' = Append(execLog,
                           ExecCall(wranglerCommand, uploadArgs(message),
                                    Some(getInput("api_token")), workingDirectory))
           /\ gitExit' = Some(code)
  /\ running' = (running \ {"git"}) \cup {"upload"}
  /\ pc' = "uploading"
  /\ gitMessage' = ""
  /\ chunks' = 0
  /\ UNCHANGED <<inputs, env, uploadStdout, uploadStderr, uploadExit, versionId,
                 deployStdout, deployStderr, deployExit, outputs, failures,
                 uploadWritten, deployWritten>>

\* a stdout listener that keeps the chunk it was called with, not the text so far
appendOutput_LastChunk(buffer, text) == text

\* buffer += text of the stdout listeners of upload and deploy
appendOutput(buffer, text) == buffer \o text

\* the stdout listener of the upload: uploadStdout += text
UploadStdout ==
  /\ pc = "uploading"
  /\ chunks < MaxChunks
  /\ \E data \in UploadChunks :
       /\ uploadStdout' = appendOutput(uploadStdout, data)
       /\ uploadWritten' = Append(uploadWritten, data)
  /\ chunks' = chunks + 1
  /\ UNCHANGED <<inputs, env, pc, running, execLog, gitMessage, gitExit, metadata,
                 renderedMessage, renderedTag, uploadStderr, uploadExit, versionId,
                 deployStdout, deployStderr, deployExit, outputs, failures, deployWritten>>

\* the stderr listener of the upload: uploadStderr += text
UploadStderr ==
  /\ pc = "uploading"
  /\ chunks < MaxChunks
  /\ \E data \in StderrChunks : uploadStderr' = uploadStderr \o data
  /\ chunks' = chunks + 1
  /\ UNCHANGED <<inputs, env, pc, running, execLog, gitMessage, gitExit, metadata,
                 renderedMessage, renderedTag, uploadStdout, uploadExit, versionId,
                 deployStdout, deployStderr, deployExit, outputs, failures,
                 uploadWritten, deployWritten>>

\* the upload ends with code: run from the second await to the third one,
\* or to its end
UploadExit ==
  /\ pc = "uploading"
  /\ \E code \in ExecOutcomes(chunks) :
       LET id == parseVersionIdFromUpload(uploadStdout)
           way == uploadOutcome(code, id)
       IN  /\ uploadExit' = Some(code)
           /\ CASE way = "throw" ->
                     /\ SetFailed(ExecError(wranglerCommand, code))
                     /\ running' = running \ {"upload"}
                     /\ UNCHANGED <<versionId, execLog, outputs, chunks>>
                [] way = "exit-failed" ->
                     /\ SetFailed("wrangler versions upload failed with exit code "
                                    \o ToString(code) \o ". See logs above for details.")
                     /\ running' = running \ {"upload"}
                     /\ UNCHANGED <<versionId, execLog, outputs, chunks>>
                [] way = "upload-only" ->
                     /\ versionId' = id
                     /\ SetOutputs(uploadOnlyOutputs(id))
                     /\ pc' = "done"
                     /\ running' = running \ {"upload"}
                     /\ UNCHANGED <<execLog, failures, chunks>>
                [] way = "no-version-id" ->
                     /\ versionId' = id
                     /\ SetFailed("Failed to parse Worker Version ID from wrangler versions upload output.")
                     /\ running' = running \ {"upload"}
                     /\ UNCHANGED <<execLog, outputs, chunks>>
                [] way = "deploy" ->
                     /\ versionId' = id
                     /\ execLog' = Append(execLog,
                                     ExecCall(wranglerCommand,
                                              deployArgs(StringOf(id), renderedMessage),
                                              Some(getInput("api_token")), workingDirectory))
                     /\ running' = (running \ {"upload"}) \cup {"deploy"}
                     /\ pc' = "deploying"
                     /\ chunks' = 0
                     /\ UNCHANGED <<outputs, failures>>
  /\ UNCHANGED <<inputs, env, gitMessage, gitExit, metadata, renderedMessage, renderedTag,
                 uploadStdout, uploadStderr, deployStdout, deployStderr, deployExit,
                 uploadWritten, deployWritten>>

\* the stdout listener of the deploy: deployStdout += text
DeployStdout ==
  /\ pc = "deploying"
  /\ chunks < MaxChunks
  /\ \E data \in DeployChunks :
       /\ deployStdout' = appendOutput(deployStdout, data)
       /\ deployWritten' = Append(deployWritten, data)
  /\ chunks' = chunks + 1
  /\ UNCHANGED <<inputs, env, pc, running, execLog, gitMessage, gitExit, metadata,
                 renderedMessage, renderedTag, uploadStdout, uploadStderr, uploadExit,
                 versionId, deployStderr, deployExit, outputs, failures, uploadWritten>>

\* the stderr listener of the deploy: deployStderr += text
DeployStderr ==
  /\ pc = "deploying"
  /\ chunks < MaxChunks
  /\ \E data \in StderrChunks : deployStderr' = deployStderr \o data
  /\ chunks' = chunks + 1
  /\ UNCHANGED <<inputs, env, pc, running, execLog, gitMessage, gitExit, metadata,
                 renderedMessage, renderedTag, uploadStdout, uploadStderr, uploadExit,
                 versionId, deployStdout, deployExit, outputs, failures,
                 uploadWritten, deployWritten>>

\* the deploy ends with code: run from the third await to its end
DeployExit ==
  /\ pc = "deploying"
  /\ \E code \in ExecOutcomes(chunks) :
       LET deploymentUrl == parseWranglerOutput(deployStdout)
           way == deployOutcome(code)
       IN  /\ deployExit' = Some(code)
           /\ CASE way = "throw" ->
                     /\ SetFailed(ExecError(wranglerCommand, code))
                     /\ UNCHANGED outputs
                [] way = "exit-failed" ->
                     /\ SetFailed("wrangler versions deploy failed with exit code "
                                    \o ToString(code) \o ". See logs above for details.")
                     /\ UNCHANGED outputs
                [] way = "publish" ->
                     /\ SetOutputs(deployOutputs(versionId, deploymentUrl))
                     /\ pc' = "done"
                     /\ UNCHANGED failures
  /\ running' = running \ {"deploy"}
  /\ UNCHANGED <<inputs, env, execLog, gitMessage, gitExit, metadata, renderedMessage,
                 renderedTag, uploadStdout, uploadStderr, uploadExit, versionId,
                 deployStdout, deployStderr, chunks,
                 uploadWritten, deployWritten>>

(***************************************************************************)
(* The run of the action                                                   *)
(***************************************************************************)
EmptyContext == [k \in {} |-> Undefined]

RenderIdle ==
  /\ rtTemplate = ""
  /\ rtContext = EmptyContext
  /\ rtResult = Undefined

FnIdle ==
  /\ fnName = ""
  /\ fnInput = ""
  /\ fnResult = Undefined

Init == RunInit /\ RenderIdle /\ FnIdle

Next ==
  \/ (Start /\ UNCHANGED <<rtVars, fnVars>>)
  \/ (GitStdout /\ UNCHANGED <<rtVars, fnVars>>)
  \/ (GitExit /\ UNCHANGED <<rtVars, fnVars>>)
  \/ (UploadStdout /\ UNCHANGED <<rtVars, fnVars>>)
  \/ (UploadStderr /\ UNCHANGED <<rtVars, fnVars>>)
  \/ (UploadExit /\ UNCHANGED <<rtVars, fnVars>>)
  \/ (DeployStdout /\ UNCHANGED <<rtVars, fnVars>>)
  \/ (DeployStderr /\ UNCHANGED <<rtVars, fnVars>>)
  \/ (DeployExit /\ UNCHANGED <<rtVars, fnVars>>)

Spec == Init /\ [][Next]_vars

(***************************************************************************)
(* renderTemplate on its own: every template up to MaxTemplateLength over  *)
(* RenderAlphabet, and templates with longer names, under a few contexts   *)
(***************************************************************************)
MaxTemplateLength == 6

RenderAlphabet == {"{", "}", " ", "x"}

RECURSIVE StringsUpTo(_, _)
StringsUpTo(alphabet, n) ==
  IF n = 0 THEN {""}
  ELSE LET shorter == StringsUpTo(alphabet, n - 1) IN
       shorter \cup {s \o c : s \in shorter, c \in alphabet}

NamedTemplates ==
  {"no vars", "{{ x }}", "a{{x}}b{{ y }}c", "{{x}}{{x}}-{{y}}", "{{\ty\n}} {{ x y }}",
   "{{constructor}}", "{{ toString }}", "{{__proto__}}", "{{X_1}}{{z}}", "{{{y}}}"}

RenderTemplates == StringsUpTo(RenderAlphabet, MaxTemplateLength) \cup NamedTemplates

RenderContexts ==
  {EmptyContext,
   [x |-> Some("a")],
   [x |-> Undefined, y |-> Some("b c")],
   [x |-> Some("{{y}}"), y |-> Some("}}")]}

RunIdle ==
  /\ inputs = [api_token |-> "", wrangler_command |-> "", working_directory |-> "",
               only_upload |-> "", config |-> "", upload_args |-> "",
               deploy_args |-> "", message_template |-> "", tag_template |-> ""]
  /\ env = [GITHUB_REPOSITORY |-> Undefined, GITHUB_SHA |-> Undefined,
            GITHUB_REF |-> Undefined, GITHUB_ACTOR |-> Undefined,
            GITHUB_RUN_ID |-> Undefined, GITHUB_RUN_NUMBER |-> Undefined]
  /\ pc = "idle"
  /\ running = {}
  /\ execLog = <<>>
  /\ gitMessage = ""
  /\ gitExit = Undefined
  /\ metadata = NoMetadata
  /\ renderedMessage = ""
  /\ renderedTag = ""
  /\ uploadStdout = ""
  /\ uploadStderr = ""
  /\ uploadExit = Undefined
  /\ versionId = Undefined
  /\ deployStdout = ""
  /\ deployStderr = ""
  /\ deployExit = Undefined
  /\ uploadWritten = <<>>
  /\ deployWritten = <<>>
  /\ chunks = 0
  /\ outputs = [n \in OutputNames |-> Undefined]
  /\ failures = <<>>

RenderInit ==
  /\ RunIdle
  /\ FnIdle
  /\ rtTemplate \in RenderTemplates
  /\ rtContext \in RenderContexts
  /\ rtResult = Undefined

\* one call of renderTemplate
Render ==
  /\ rtResult = Undefined
  /\ rtResult' = Some(renderTemplate(rtTemplate, rtContext))
  /\ UNCHANGED <<rtTemplate, rtContext, runVars, fnVars>>

NextRender == Render

SpecRender == RenderInit /\ [][NextRender]_vars

(***************************************************************************)
(* splitArgs, parseVersionIdFromUpload, parseWranglerOutput and            *)
(* buildDefaultMessage, each called on its own                             *)
(***************************************************************************)
MaxArgsLength == 5
MaxPieces == 3

ArgsAlphabet == {"a", " ", "'", "\""}

NamedArgs ==
  {"--msg \"hello world\"", "a'b c'd", "--env production --minify", "\t\n ",
   "--var \"it's\" x", "--tag 'v1 \"rc\"' \"\" ''", "a\tb\nc", "--message \"unterminated text"}

RawArgs == StringsUpTo(ArgsAlphabet, MaxArgsLength) \cup NamedArgs

VersionPieces == {"Worker Version ID:", " ", "3f", "-A9", "g", "\n", "worker version id:"}

NamedUploadTexts ==
  {"Uploaded my-worker (1.2 sec)\nWorker Version ID: abc123-def\n",
   "... Worker Version ID: abc123-def ...", "no id here",
   "Worker Version ID: xyz\nWorker Version ID:\n 12",
   "Worker Version ID:\t\tDEADbeef-00, Worker Version ID: 1",
   "Worker  Version ID: 1", "Worker Version ID:- -"}

UploadTexts == StringsUpTo(VersionPieces, MaxPieces) \cup NamedUploadTexts

UrlPieces == {"http://", "https://", "a.b/c", " ", "\"", "x", "\n"}

NamedDeployTexts ==
  {"deployed to \"https://example.com/x\" ok", "http:// https:// http://a",
   "Deployed my-worker\n  https://my-worker.acme.workers.dev (100%)\n",
   "HTTPS://A.B ftp://c.d", "see<https://a.b/c?d=e&f='g'>,then"}

DeployTexts == StringsUpTo(UrlPieces, MaxPieces) \cup NamedDeployTexts

\* a commit message longer than MaxMessageLength, and one just short of it
LongText ==
  "0123456789012345678901234567890123456789012345678901234567890123456789"
    \o "0123456789012345678901234567890123456789012345678901234567890123456789"
NearLimitText == Sub(LongText, 1, MaxMessageLength - 5)

\* metadata as collectMetadata makes it, and DeployMetadata values in general,
\* some with a summary line that does not fit the message
MetaSet ==
  {collectMetadata([GITHUB_REPOSITORY |-> Some("o/r"), GITHUB_SHA |-> sha, GITHUB_REF |-> ref,
                    GITHUB_ACTOR |-> Some("me"), GITHUB_RUN_ID |-> Some("77"),
                    GITHUB_RUN_NUMBER |-> Some("5")], message) :
     sha \in {Undefined, Some(""), Some("0123456789abcdef"), Some("abc")},
     ref \in {Undefined, Some("refs/heads/main"), Some("refs/tags/v1"), Some("refs/heads/")},
     message \in {Undefined, Some("fix: a bug"), Some("fix: a bug \r\n\nbody")}}
  \cup
  {[NoMetadata EXCEPT !.branch = b, !.sha = sha, !.short_sha = short,
                      !.commit_message = m, !.short_commit_message = sm] :
     b \in {Undefined, Some("dev")},
     sha \in {Undefined, Some("fedcba9876543210")},
     short \in {Undefined, Some(""), Some("fedcba9")},
     m \in {Undefined, Some("full message\nbody"), Some(NearLimitText \o "\nbody")},
     sm \in {Undefined, Some(""), Some("short message"), Some(LongText), Some(NearLimitText)}}

\* the environment and the commit message a collector works from
CollectorInputs ==
  {[env |-> [GITHUB_REPOSITORY |-> repo, GITHUB_SHA |-> sha, GITHUB_REF |-> ref,
             GITHUB_ACTOR |-> Some("me"), GITHUB_RUN_ID |-> Some("77"),
             GITHUB_RUN_NUMBER |-> Some("5")],
    commit_message |-> getLastCommitMessage(0, text)] :
     repo \in {Undefined, Some(""), Some("o/r"), Some("o/r/x"), Some("solo"), Some("o//r")},
     sha \in {Undefined, Some("0123456789abcdef")},
     ref \in {Undefined, Some("refs/heads/main"), Some("refs/heads/a/refs/heads/b")},
     text \in {"", "one line\n", "fix: a bug \r\n\nbody\n", "  add x\t \nmore\n", "\n\n"}}

HelperInit ==
  /\ RunIdle
  /\ RenderIdle
  /\ \/ fnName = "splitArgs" /\ fnInput \in RawArgs
     \/ fnName = "parseVersionIdFromUpload" /\ fnInput \in UploadTexts
     \/ fnName = "parseWranglerOutput" /\ fnInput \in DeployTexts
     \/ fnName = "buildDefaultMessage" /\ fnInput \in MetaSet
     \/ fnName = "collectMetadata" /\ fnInput \in CollectorInputs
     \/ fnName = "collectDeployMetadata" /\ fnInput \in CollectorInputs
  /\ fnResult = Undefined

\* one call of splitArgs
SplitArgs ==
  /\ fnName = "splitArgs"
  /\ fnResult = Undefined
  /\ fnResult' = Some(splitArgs(fnInput))
  /\ UNCHANGED <<fnName, fnInput, runVars, rtVars>>

\* one call of parseVersionIdFromUpload
ParseVersionId ==
  /\ fnName = "parseVersionIdFromUpload"
  /\ fnResult = Undefined
  /\ fnResult' = Some(parseVersionIdFromUpload(fnInput))
  /\ UNCHANGED <<fnName, fnInput, runVars, rtVars>>

\* one call of parseWranglerOutput
ParseUrl ==
  /\ fnName = "parseWranglerOutput"
  /\ fnResult = Undefined
  /\ fnResult' = Some(parseWranglerOutput(fnInput))
  /\ UNCHANGED <<fnName, fnInput, runVars, rtVars>>

\* one call of buildDefaultMessage
BuildDefaultMessage ==
  /\ fnName = "buildDefaultMessage"
  /\ fnResult = Undefined
  /\ fnResult' = Some(buildDefaultMessage(fnInput))
  /\ UNCHANGED <<fnName, fnInput, runVars, rtVars>>

\* one call of collectMetadata, git having ended
CollectMetadata ==
  /\ fnName = "collectMetadata"
  /\ fnResult = Undefined
  /\ fnResult' = Some(collectMetadata(fnInput.env, fnInput.commit_message))
  /\ UNCHANGED <<fnName, fnInput, runVars, rtVars>>

\* one call of collectDeployMetadata, git having ended
CollectDeployMetadata ==
  /\ fnName = "collectDeployMetadata"
  /\ fnResult = Undefined
  /\ fnResult' = Some(collectDeployMetadata(fnInput.env, fnInput.commit_message))
  /\ UNCHANGED <<fnName, fnInput, runVars, rtVars>>

NextHelper ==
  \/ SplitArgs
  \/ ParseVersionId
  \/ ParseUrl
  \/ BuildDefaultMessage
  \/ CollectMetadata
  \/ CollectDeployMetadata

SpecHelper == HelperInit /\ [][NextHelper]_vars

(***************************************************************************)
(* What the claims speak of                                                *)
(***************************************************************************)
IsCall(call, sub) ==
  Len(call.args) >= 2 /\ call.args[1] = "versions" /\ call.args[2] = sub
UploadCalls == {i \in 1..Len(execLog) : IsCall(execLog[i], "upload")}
DeployCalls == {i \in 1..Len(execLog) : IsCall(execLog[i], "deploy")}
Published(n) == IsDefined(outputs[n])
Failed == failures # <<>>

\* a placeholder, stated as text: {{ then whitespace, a name, whitespace, then }}
IsSpaces(s) == \A i \in 1..Len(s) : Ch(s, i) \in WhiteSpace
IsName(s) == Len(s) >= 1 /\ \A i \in 1..Len(s) : Ch(s, i) \in NameChars
\* the span a..b of the name in p: whitespace only between {{ and a and
\* between b and }} (no span, or one)
NameSpans(p) ==
  LET inner == {i \in 3..(Len(p) - 2) : Ch(p, i) \notin WhiteSpace} IN
  IF inner = {} THEN {}
  ELSE LET a == CHOOSE i \in inner : \A j \in inner : i <= j
           b == CHOOSE i \in inner : \A j \in inner : j <= i
       IN  IF IsName(Sub(p, a, b)) THEN {<<a, b>>} ELSE {}
IsPlaceholderText(p) ==
  /\ Len(p) >= 5
  /\ Sub(p, 1, 2) = "{{"
  /\ Sub(p, Len(p) - 1, Len(p)) = "}}"
  /\ NameSpans(p) # {}
NameOf(p) == LET ab == CHOOSE ab \in NameSpans(p) : TRUE IN Sub(p, ab[1], ab[2])

\* the occurrences <<first, last>> of placeholders in t. A placeholder holds
\* no } before its end, so the one that starts at i ends with the first }}
\* after i + 1; no two occurrences overlap
Occurrences(t) ==
  LET starts == {i \in 1..(Len(t) - 1) : Sub(t, i, i + 1) = "{{"}
      close(i) == IndexOf(t, "}}", i + 2)
  IN  {ij \in {<<i, close(i) + 1>> : i \in starts} :
         ij[2] > 1 /\ IsPlaceholderText(Sub(t, ij[1], ij[2]))}

\* the value a name stands for: as a key of the mapping only (ownOnly), or
\* as the property read context[name]
ValueOfName(context, name, ownOnly) ==
  IF ownOnly
    THEN (IF name \in DOMAIN context /\ IsDefined(context[name])
            THEN context[name][1] ELSE "")
    ELSE (IF IsDefined(PropertyRead(context, name))
            THEN PropertyRead(context, name)[1] ELSE "")

\* t with every occurrence of a placeholder replaced by the value of its name
RECURSIVE Substituted(_, _, _)
Substituted(t, context, ownOnly) ==
  LET occ == Occurrences(t) IN
  IF occ = {} THEN t
  ELSE LET ij == CHOOSE o \in occ : \A q \in occ : o[1] <= q[1]
       IN  Sub(t, 1, ij[1] - 1)
             \o ValueOfName(context, NameOf(Sub(t, ij[1], ij[2])), ownOnly)
             \o Substituted(Sub(t, ij[2] + 1, Len(t)), context, ownOnly)

(***************************************************************************)
(* Claims                                                                  *)
(***************************************************************************)
\* C1: in full mode, when the upload exits 0 and no version id can be
\* extracted from its output, the run ends in fatal failure and deploy is
\* never invoked.
C1_MissingIdIsFatal ==
  (/\ ~onlyUpload
   /\ uploadExit = Some(0)
   /\ ~IsDefined(parseVersionIdFromUpload(uploadStdout)))
  => (pc = "done" /\ Failed /\ Len(failures) = 1 /\ DeployCalls = {}
      /\ "deploy" \notin running)

C1_Witness ==
  /\ ~onlyUpload
  /\ uploadExit = Some(0)
  /\ uploadStdout = " ID: 3fa9-0c\n"
  /\ pc = "done"
  /\ failures = <<"Failed to parse Worker Version ID from wrangler versions upload output.">>
  /\ DeployCalls = {}

\* C2: in either mode, when the upload ends with a non-zero exit status the
\* run ends in fatal failure, deploy is never invoked and none of the four
\* outputs is published.
C2_UploadFailureIsFatal ==
  (IsDefined(uploadExit) /\ uploadExit[1] \in ExitCodes \ {0})
  => (pc = "done" /\ Failed /\ DeployCalls = {} /\ "deploy" \notin running
      /\ \A n \in OutputNames : ~Published(n))

C2_Witness ==
  /\ uploadExit = Some(2)
  /\ ~onlyUpload
  /\ parseVersionIdFromUpload(uploadStdout) = Some("3f")
  /\ renderedMessage # ""
  /\ pc = "done"
  /\ Failed
  /\ \A n \in OutputNames : ~Published(n)

\* C3: in upload-only mode deploy is never invoked and the deployment URL
\* output is never published, whatever the upload's exit status and output.
C3_UploadOnlyNeverDeploys ==
  onlyUpload => (DeployCalls = {} /\ "deploy" \notin running
                 /\ ~Published("deployment_url") /\ pc # "deploying")

C3_Witness ==
  /\ onlyUpload
  /\ uploadExit = Some(0)
  /\ versionId = Some("3f")
  /\ pc = "done"
  /\ ~Failed
  /\ DeployCalls = {}

\* C4: in upload-only mode, when the upload exits 0 the run ends without
\* fatal status; the version id output is left unset when no id can be
\* extracted and is exactly the extracted id otherwise.
C4_UploadOnlyToleratesMissingId ==
  (onlyUpload /\ uploadExit = Some(0))
  => (pc = "done" /\ ~Failed
      /\ outputs["version_id"] = parseVersionIdFromUpload(uploadStdout))

C4_Witness ==
  /\ onlyUpload
  /\ uploadExit = Some(0)
  /\ uploadStdout = "a9-0c\nWorker Version"
  /\ pc = "done"
  /\ ~Failed
  /\ ~Published("version_id")
  /\ Published("message")

\* C5: in full mode, when the upload exits 0 with a version id in its output
\* and the deploy exits 0 with a URL in its output, the run ends without
\* fatal status and publishes that version id and that URL.
C5_FullModeSuccess ==
  (/\ ~onlyUpload
   /\ uploadExit = Some(0)
   /\ IsDefined(parseVersionIdFromUpload(uploadStdout))
   /\ deployExit = Some(0)
   /\ IsDefined(parseWranglerOutput(deployStdout)))
  => (/\ pc = "done"
      /\ ~Failed
      /\ outputs["version_id"] = parseVersionIdFromUpload(uploadStdout)
      /\ outputs["deployment_url"] = parseWranglerOutput(deployStdout))

C5_Witness ==
  /\ ~onlyUpload
  /\ uploadExit = Some(0)
  /\ deployExit = Some(0)
  /\ pc = "done"
  /\ ~Failed
  /\ outputs["version_id"] = Some("3f")
  /\ outputs["deployment_url"] = Some("https://demo.example.dev/x")

\* C6: deploy is invoked only in full mode, after the upload has ended with
\* exit status 0 and a version id was extracted; no two processes run at the
\* same time; the third argument of deploy is the extracted id, which is also
\* the id published.
C6_DeployAfterUpload ==
  /\ Cardinality(running) <= 1
  /\ \A i \in DeployCalls :
       /\ ~onlyUpload
       /\ \E j \in UploadCalls : j < i
       /\ "upload" \notin running
       /\ uploadExit = Some(0)
       /\ parseVersionIdFromUpload(uploadStdout) = Some(execLog[i].args[3])
       /\ versionId = Some(execLog[i].args[3])
       /\ Published("version_id") => outputs["version_id"] = Some(execLog[i].args[3])

C6_Witness ==
  /\ DeployCalls = {3}
  /\ execLog[3].args[3] = "3f"
  /\ pc = "done"
  /\ outputs["version_id"] = Some("3f")

\* C7: when no config path is supplied the run still performs the upload and
\* no invocation has a --config argument; when a config path is supplied,
\* every upload and deploy invocation has --config <path>.
C7_ConfigIsOptional ==
  /\ (/\ pc = "done"
      /\ getInput("config") = ""
      /\ getInput("api_token") # ""
      /\ getInput("wrangler_command") # "")
     => UploadCalls # {}
  /\ \A i \in UploadCalls \cup DeployCalls :
       LET args == execLog[i].args IN
       IF getInput("config") = ""
         THEN \A k \in 1..Len(args) : args[k] # "--config"
         ELSE \E k \in 1..(Len(args) - 1) :
                args[k] = "--config" /\ args[k + 1] = getInput("config")

\* C8: every placeholder whose name is not a key of the context with a
\* defined value is replaced by the empty string, whatever the name.
C8_UnknownNamesRenderEmpty ==
  IsDefined(rtResult) => rtResult[1] = Substituted(rtTemplate, rtContext, TRUE)

\* C9: renderTemplate returns the template with every occurrence of a
\* placeholder replaced by the value context[name] (nothing when that is
\* undefined) and all other text unchanged, in the same order; a template
\* without a placeholder is returned unchanged.
C9_RenderReplacesEveryOccurrence ==
  IsDefined(rtResult)
  => (/\ rtResult[1] = Substituted(rtTemplate, rtContext, FALSE)
      /\ Occurrences(rtTemplate) = {} => rtResult[1] = rtTemplate
      /\ (rtTemplate = "{{x}}" /\ rtContext = EmptyContext) => rtResult[1] = ""
      /\ (rtTemplate = "{{x}}" /\ rtContext = [x |-> Some("a")]) => rtResult[1] = "a")

C9_Witness ==
  /\ rtTemplate = "a{{x}}b{{ y }}c"
  /\ rtContext = [x |-> Undefined, y |-> Some("b c")]
  /\ rtResult = Some("abb cc")

\* C10: in the message and the tag rendered before the upload, the
\* placeholders version_id and deployment_url stand for the empty string, in
\* both modes and whatever the upload and the deploy print afterwards.
C10_PreRenderHasNoDeploymentData ==
  UploadCalls # {}
  => (/\ messageTemplate # ""
         => renderedMessage = Substituted(messageTemplate, metadata, TRUE)
      /\ tagTemplate # ""
         => renderedTag = Substituted(tagTemplate, metadata, TRUE)
      /\ "version_id" \notin DOMAIN metadata
      /\ "deployment_url" \notin DOMAIN metadata
      /\ Published("message") => outputs["message"] = Some(renderedMessage)
      /\ Published("tag") => outputs["tag"] = Some(renderedTag))

C10_Witness ==
  /\ messageTemplate = "v={{version_id}} u={{ deployment_url }}"
  /\ pc = "done"
  /\ outputs["version_id"] = Some("3f")
  /\ Published("deployment_url")
  /\ outputs["message"] = Some("v= u=")

(***************************************************************************)
(* splitArgs, said without the loop: which quote each character stands in, *)
(* the words between unquoted whitespace, and their text without the       *)
(* delimiting quotes                                                       *)
(***************************************************************************)
QuoteChars == {"'", "\""}

\* the quote that is open in front of each character of raw and behind its
\* last one ("" when none): Len(raw) + 1 entries
RECURSIVE QuoteStates(_, _)
QuoteStates(raw, states) ==
  IF Len(states) > Len(raw) THEN states
  ELSE LET q == states[Len(states)]
           c == Ch(raw, Len(states))
       IN  QuoteStates(raw, Append(states,
             IF q # "" THEN (IF c = q THEN "" ELSE q)
             ELSE IF c \in QuoteChars THEN c ELSE ""))

QuoteBefore(raw, i) == QuoteStates(raw, <<"">>)[i]

\* the character at i opens or closes a quoted run (qs: the quote states of raw)
IsDelimiter(raw, qs, i) ==
  IF qs[i] = "" THEN Ch(raw, i) \in QuoteChars ELSE Ch(raw, i) = qs[i]

\* the character at i is whitespace outside every quoted run
IsSeparator(raw, qs, i) == qs[i] = "" /\ Ch(raw, i) \in WhiteSpace

\* the text of raw from a to b without the delimiting quotes
RECURSIVE Unquoted(_, _, _, _)
Unquoted(raw, qs, a, b) ==
  IF a > b THEN ""
  ELSE (IF IsDelimiter(raw, qs, a) THEN "" ELSE Ch(raw, a)) \o Unquoted(raw, qs, a + 1, b)

\* where a stretch of raw without separator begins, and where one ends
WordStarts(raw, qs) ==
  {a \in 1..Len(raw) : ~IsSeparator(raw, qs, a) /\ (a = 1 \/ IsSeparator(raw, qs, a - 1))}
WordEnds(raw, qs) ==
  {b \in 1..Len(raw) :
     ~IsSeparator(raw, qs, b) /\ (b = Len(raw) \/ IsSeparator(raw, qs, b + 1))}

\* the maximal stretches a..b of raw that hold no separator
Words(raw) ==
  LET qs == QuoteStates(raw, <<"">>)
      ends == WordEnds(raw, qs)
  IN  {<<a, CHOOSE b \in ends : b >= a /\ \A c \in ends : c >= a => b <= c>> :
         a \in WordStarts(raw, qs)}

\* the words in the order they stand in, as their unquoted texts, those
\* with no text left out
RECURSIVE TokensFrom(_, _, _)
TokensFrom(raw, qs, words) ==
  IF words = {} THEN <<>>
  ELSE LET w == CHOOSE x \in words : \A y \in words : x[1] <= y[1]
           text == Unquoted(raw, qs, w[1], w[2])
       IN  (IF text = "" THEN <<>> ELSE <<text>>) \o TokensFrom(raw, qs, words \ {w})

TokensOf(raw, words) == TokensFrom(raw, QuoteStates(raw, <<"">>), words)

SplitDone == fnName = "splitArgs" /\ IsDefined(fnResult)

\* C11: splitArgs gives, in order, the words of its input that unquoted
\* whitespace separates, each without its delimiting quotes and with its
\* adjacent quoted and unquoted segments joined; whitespace inside quotes
\* stays in the token; an empty or whitespace-only input gives the empty list
C11_SplitArgsTokens ==
  SplitDone =>
    /\ fnResult[1] = TokensOf(fnInput, Words(fnInput))
    /\ Trim(fnInput) = "" => fnResult[1] = <<>>
    /\ fnInput = "--msg \"hello world\"" => fnResult[1] = <<"--msg", "hello world">>
    /\ fnInput = "a'b c'd" => fnResult[1] = <<"ab cd">>

C11_Witness == SplitDone /\ fnInput = "a'b c'd" /\ fnResult[1] = <<"ab cd">>

\* where the quote that is still open at the end of raw was opened, 0 when
\* raw ends outside every quote
OpenQuoteAt(raw) ==
  IF QuoteBefore(raw, Len(raw) + 1) = "" THEN 0
  ELSE CHOOSE i \in 1..Len(raw) :
         /\ QuoteBefore(raw, i) = ""
         /\ \A j \in (i + 1)..(Len(raw) + 1) : QuoteBefore(raw, j) # ""

EndsWith(s, suffix) ==
  Len(suffix) <= Len(s) /\ Sub(s, Len(s) - Len(suffix) + 1, Len(s)) = suffix

\* C12: splitArgs returns a list of tokens for every input; when the input
\* ends inside a quote, what follows the opening quote, whitespace
\* included, is the end of the last token
C12_UnterminatedQuote ==
  /\ fnName = "splitArgs" /\ fnResult = Undefined => ENABLED SplitArgs
  /\ SplitDone =>
       /\ \A k \in 1..Len(fnResult[1]) : Len(fnResult[1][k]) > 0
       /\ OpenQuoteAt(fnInput) > 0 =>
            LET rest == Sub(fnInput, OpenQuoteAt(fnInput) + 1, Len(fnInput)) IN
            rest # "" =>
              /\ Len(fnResult[1]) > 0
              /\ EndsWith(fnResult[1][Len(fnResult[1])], rest)

C12_Witness ==
  /\ SplitDone
  /\ fnInput = "--message \"unterminated text"
  /\ fnResult[1] = <<"--message", "unterminated text">>

(***************************************************************************)
(* buildDefaultMessage                                                     *)
(***************************************************************************)
DefaultMessageDone == fnName = "buildDefaultMessage" /\ IsDefined(fnResult)

\* the parts the default message is made of, "" for a part that is not there
BranchPart(meta) == OrEmpty(meta.branch)
ShaPart(meta) ==
  IF Truthy(meta.short_sha) THEN meta.short_sha[1]
  ELSE IF Truthy(meta.sha) THEN Sub(meta.sha[1], 1, 6) ELSE ""
CommitPart(meta) ==
  IF Truthy(meta.short_commit_message) THEN meta.short_commit_message[1]
  ELSE IF Truthy(meta.commit_message) THEN meta.commit_message[1] ELSE ""

\* the message before it is cut, case by case
UncutDefaultMessage(meta) ==
  LET b == BranchPart(meta)
      h == ShaPart(meta)
      c == CommitPart(meta)
  IN  CASE b # "" /\ h # "" -> b \o "@" \o h \o ": " \o c
        [] b # "" /\ h = "" -> b \o ": " \o c
        [] b = "" /\ h # "" -> h \o ": " \o c
        [] b = "" /\ h = "" -> c

\* C13: the default message is branch@shortSha (or the one of the two that
\* is there) followed by ": " and the commit message, the short one before
\* the full one, or the commit message alone when there is neither branch
\* nor sha; it is cut to its first 100 characters
C13_DefaultMessage ==
  DefaultMessageDone =>
    LET uncut == UncutDefaultMessage(fnInput) IN
    /\ Len(fnResult[1]) <= 100
    /\ Len(uncut) <= 100 => fnResult[1] = uncut
    /\ Len(uncut) > 100 => fnResult[1] = Sub(uncut, 1, 100)

C13_Witness ==
  /\ DefaultMessageDone
  /\ BranchPart(fnInput) # "" /\ ShaPart(fnInput) # ""
  /\ Len(UncutDefaultMessage(fnInput)) > 100
  /\ Len(CommitPart(fnInput)) < 100
  /\ Len(fnResult[1]) = 100

(***************************************************************************)
(* parseVersionIdFromUpload and parseWranglerOutput                        *)
(***************************************************************************)
VersionIdDone == fnName = "parseVersionIdFromUpload" /\ IsDefined(fnResult)

\* the label stands at i, in exactly this spelling
LabelAt(t, i) == Sub(t, i, i + 17) = "Worker Version ID:"

IsHexOrHyphen(c) ==
  \E k \in 1..23 : Sub("0123456789abcdefABCDEF-", k, k) = c

\* the identifiers a..b that follow the label at i: nothing but whitespace
\* between the label and a, hexadecimal characters and hyphens from a to b,
\* and none right after b
IdsAfterLabel(t, i) ==
  {w \in ((i + 18)..Len(t)) \X ((i + 18)..Len(t)) :
     /\ w[1] <= w[2]
     /\ \A x \in (i + 18)..(w[1] - 1) : Ch(t, x) \in WhiteSpace
     /\ \A x \in w[1]..w[2] : IsHexOrHyphen(Ch(t, x))
     /\ w[2] = Len(t) \/ ~IsHexOrHyphen(Ch(t, w[2] + 1))}

\* where a label stands that an identifier follows
LabelsWithId(t) == {i \in 1..Len(t) : LabelAt(t, i) /\ IdsAfterLabel(t, i) # {}}

Least(S) == CHOOSE x \in S : \A y \in S : x <= y

\* C14: parseVersionIdFromUpload returns the run of hexadecimal characters
\* and hyphens that follows the first label `Worker Version ID:` (in this
\* spelling) that such a run follows, whitespace between the two allowed;
\* it returns nothing when no label is followed by such a run
C14_VersionIdAfterLabel ==
  VersionIdDone =>
    LET t == fnInput
        labels == LabelsWithId(t)
    IN  /\ labels = {} => fnResult[1] = Undefined
        /\ labels # {} =>
             \E w \in IdsAfterLabel(t, Least(labels)) :
               fnResult[1] = Some(Sub(t, w[1], w[2]))
        /\ t = "... Worker Version ID: abc123-def ..." => fnResult[1] = Some("abc123-def")
        /\ t = "no id here" => fnResult[1] = Undefined

C14_Witness ==
  /\ VersionIdDone
  /\ Cardinality(LabelsWithId(fnInput)) = 1
  /\ \E i \in 1..Len(fnInput) : LabelAt(fnInput, i) /\ i < Least(LabelsWithId(fnInput))
  /\ fnResult[1] = Some("12")

UrlDone == fnName = "parseWranglerOutput" /\ IsDefined(fnResult)

SchemeAt(t, i) == Sub(t, i, i + 6) = "http://" \/ Sub(t, i, i + 7) = "https://"

\* the index after the scheme that stands at i
AfterScheme(t, i) == IF Sub(t, i, i + 6) = "http://" THEN i + 7 ELSE i + 8

EndsUrl(c) == c \in WhiteSpace \/ c = "\""

\* t from i up to, not including, the next whitespace or double quote
UpToStop(t, i) ==
  LET stops == {x \in i..Len(t) : EndsUrl(Ch(t, x))} IN
  IF stops = {} THEN Sub(t, i, Len(t)) ELSE Sub(t, i, Least(stops) - 1)

\* C15 as stated: the result is the text from the first `http://` or
\* `https://` up to the next whitespace or double quote, and nothing when
\* the text holds neither
C15_FirstSchemeIsTheUrl ==
  UrlDone =>
    LET schemes == {i \in 1..Len(fnInput) : SchemeAt(fnInput, i)} IN
    /\ schemes = {} => fnResult[1] = Undefined
    /\ schemes # {} => fnResult[1] = Some(UpToStop(fnInput, Least(schemes)))

\* where a scheme stands that at least one character of a URL follows
SchemesWithBody(t) ==
  {i \in 1..Len(t) :
     /\ SchemeAt(t, i)
     /\ AfterScheme(t, i) <= Len(t)
     /\ ~EndsUrl(Ch(t, AfterScheme(t, i)))}

\* C15: the result is the text from the first `http://` or `https://` that
\* a character other than whitespace and double quote follows, up to the
\* next whitespace or double quote; nothing when the text has no such scheme
C15_FirstUrlWithBody ==
  UrlDone =>
    LET urls == SchemesWithBody(fnInput) IN
    /\ urls = {} => fnResult[1] = Undefined
    /\ urls # {} => fnResult[1] = Some(UpToStop(fnInput, Least(urls)))
    /\ fnInput = "deployed to \"https://example.com/x\" ok"
         => fnResult[1] = Some("https://example.com/x")

C15_Witness ==
  /\ UrlDone
  /\ fnInput = "http:// https:// http://a"
  /\ fnResult[1] = Some("http://a")

(***************************************************************************)
(* The run of the action, continued                                        *)
(***************************************************************************)
\* C16: in full mode, when the deploy exits 0 and no URL is found in its
\* output, the run ends without fatal status, the version id is published,
\* the message and the tag are published when non-empty, and the
\* deployment URL output is not set.
C16_MissingUrlIsTolerated ==
  (/\ ~onlyUpload
   /\ deployExit = Some(0)
   /\ ~IsDefined(parseWranglerOutput(deployStdout)))
  => (/\ pc = "done"
      /\ ~Failed
      /\ IsDefined(versionId)
      /\ outputs["version_id"] = versionId
      /\ ~Published("deployment_url")
      /\ renderedMessage # "" => outputs["message"] = Some(renderedMessage)
      /\ renderedTag # "" => outputs["tag"] = Some(renderedTag))

C16_Witness ==
  /\ ~onlyUpload
  /\ deployExit = Some(0)
  /\ deployStdout = "ample.dev/x\" now\n"
  /\ pc = "done"
  /\ ~Failed
  /\ outputs["version_id"] = Some("3f")
  /\ ~Published("deployment_url")
  /\ Published("message")

\* C17: when the token is not supplied or blank, the run ends with fatal
\* status without having started any process (no git, no upload, no deploy)
\* and without having set any output.
C17_NoTokenNoProcess ==
  (getInput("api_token") = "" /\ pc # "idle")
  => (/\ execLog = <<>>
      /\ running = {}
      /\ \A n \in OutputNames : ~Published(n)
      /\ pc \in {"start", "done"}
      /\ pc = "done" => Failed)

C17_Witness ==
  /\ inputs["api_token"] = " "
  /\ pc = "done"
  /\ failures = <<"Cloudflare API token (api_token) is required.">>
  /\ execLog = <<>>

\* the context with the two commit message fields taken out
WithoutCommitMessage(context) ==
  [k \in DOMAIN context |->
     IF k \in {"commit_message", "short_commit_message"} THEN Undefined ELSE context[k]]

GitFailed == IsDefined(gitExit) /\ gitExit[1] # 0

\* C18: when git cannot be started or exits with a non-zero status, the
\* metadata has neither commit message nor short commit message, the run
\* goes on to the upload without fatal status, and the placeholders of the
\* two fields stand for the empty string in the rendered message and tag.
C18_GitFailureIsTolerated ==
  GitFailed
  => (/\ metadata.commit_message = Undefined
      /\ metadata.short_commit_message = Undefined
      /\ UploadCalls # {}
      /\ pc = "uploading" => ~Failed
      /\ Failed => IsDefined(uploadExit)
      /\ messageTemplate # ""
           => renderedMessage
                = Substituted(messageTemplate, WithoutCommitMessage(metadata), TRUE)
      /\ tagTemplate # ""
           => renderedTag = Substituted(tagTemplate, WithoutCommitMessage(metadata), TRUE))

C18_Witness ==
  /\ gitExit = Some(2)
  /\ messageTemplate = "{{branch}}@{{ short_sha }} {{short_commit_message}}{{version_id}}"
  /\ renderedMessage = "main@0123456 "
  /\ pc = "done"
  /\ ~Failed
  /\ outputs["message"] = Some("main@0123456 ")

\* the arguments of a call that begin with --message
MessageArgs(call) ==
  {k \in 1..Len(call.args) : StartsWith(call.args[k], "--message")}

\* C19: the upload and the deploy each get the message as one argument,
\* --message= followed by the message, whitespace in the message or not;
\* it is the message rendered before the upload, the same for both, and the
\* message output, when set, is that message.
C19_OneMessageArgument ==
  /\ UploadCalls = {} => renderedMessage = ""
  /\ \A i \in UploadCalls \cup DeployCalls :
       /\ MessageArgs(execLog[i]) = {Len(execLog[i].args)}
       /\ execLog[i].args[Len(execLog[i].args)] = "--message=" \o renderedMessage
  /\ \A i \in UploadCalls : \A j \in DeployCalls :
       execLog[i].args[Len(execLog[i].args)] = execLog[j].args[Len(execLog[j].args)]
  /\ Published("message") => outputs["message"] = Some(renderedMessage)

C19_Witness ==
  /\ pc = "done"
  /\ ~Failed
  /\ renderedMessage = "main@0123456 fix: a bug \r"
  /\ \E i \in UploadCalls : execLog[i].args[7] = "--message=main@0123456 fix: a bug \r"
  /\ \E j \in DeployCalls : execLog[j].args[9] = "--message=main@0123456 fix: a bug \r"
  /\ outputs["message"] = Some("main@0123456 fix: a bug \r")

\* the run has ended without fatal status, in either mode
Succeeded == pc = "done" /\ ~Failed

\* C20: without a tag template the tag is empty and the tag output is never
\* set; with one, the tag is the template rendered against the metadata
\* context; when the run ends without fatal status, in either mode, the
\* message output and the tag output are each set exactly when the message,
\* respectively the tag, is non-empty.
C20_TagAndMessageOutputs ==
  /\ tagTemplate = "" => renderedTag = "" /\ ~Published("tag")
  /\ (tagTemplate # "" /\ UploadCalls # {})
       => renderedTag = Substituted(tagTemplate, preTemplateContext(metadata), FALSE)
  /\ Succeeded
       => (/\ Published("message") <=> renderedMessage # ""
           /\ Published("tag") <=> renderedTag # ""
           /\ Published("message") => outputs["message"] = Some(renderedMessage)
           /\ Published("tag") => outputs["tag"] = Some(renderedTag))

C20_Witness ==
  /\ Succeeded
  /\ onlyUpload
  /\ tagTemplate = "{{owner}}-{{run_number}}{{version_id}}"
  /\ outputs["version_id"] = Some("3f")
  /\ outputs["tag"] = Some("o-5")

\* the upload has ended and the run cannot go on to the deploy: non-zero
\* exit, process not started, or no version id in full mode
UploadMissed ==
  /\ IsDefined(uploadExit)
  /\ uploadExit # Some(0) \/ (~onlyUpload /\ ~Truthy(parseVersionIdFromUpload(uploadStdout)))

\* C21: the upload is invoked at most once and the deploy at most once; once
\* the upload has exited non-zero or without a version id, or the deploy has
\* exited, no process is running and none is started any more.
C21_NoRetry ==
  /\ Cardinality(UploadCalls) <= 1
  /\ Cardinality(DeployCalls) <= 1
  /\ Cardinality({i \in 1..Len(execLog) : execLog[i].tool = "git"}) <= 1
  /\ Len(execLog) <= 3
  /\ UploadMissed => (pc = "done" /\ running = {} /\ DeployCalls = {} /\ Len(execLog) = 2)
  /\ IsDefined(deployExit) => (pc = "done" /\ running = {} /\ Len(execLog) = 3)

C21_Witness ==
  /\ uploadExit = Some(1)
  /\ parseVersionIdFromUpload(uploadStdout) = Some("3f")
  /\ ~onlyUpload
  /\ pc = "done"
  /\ Failed
  /\ Cardinality(UploadCalls) = 1
  /\ DeployCalls = {}

(***************************************************************************)
(* The two metadata collectors                                             *)
(***************************************************************************)
CollectorDone ==
  fnName \in {"collectMetadata", "collectDeployMetadata"} /\ IsDefined(fnResult)

\* the text of s in front of its first line feed
FirstLine(s) ==
  LET feeds == {i \in 1..Len(s) : Ch(s, i) = "\n"} IN
  IF feeds = {} THEN s ELSE Sub(s, 1, Least(feeds) - 1)

\* s without the whitespace at its two ends
Stripped(s) ==
  LET inner == {i \in 1..Len(s) : Ch(s, i) \notin WhiteSpace} IN
  IF inner = {} THEN ""
  ELSE Sub(s, Least(inner), CHOOSE i \in inner : \A j \in inner : j <= i)

\* C22: in the metadata of either collector, the short commit message is
\* the first line of the commit message without the whitespace at its ends.
C22_ShortMessageIsTrimmed ==
  (CollectorDone /\ IsDefined(fnInput.commit_message))
  => fnResult[1].short_commit_message
       = Some(Stripped(FirstLine(fnInput.commit_message[1])))

Slashes(s) == {i \in 1..Len(s) : Ch(s, i) = "/"}

\* C23: in the metadata of either collector, the owner is the text of the
\* repository value in front of its first `/` and the name all the text
\* behind it, however many `/` the value has.
C23_SplitOnFirstSlash ==
  (/\ CollectorDone
   /\ Truthy(fnInput.env.GITHUB_REPOSITORY)
   /\ Slashes(fnInput.env.GITHUB_REPOSITORY[1]) # {})
  => LET full == fnInput.env.GITHUB_REPOSITORY[1]
         first == Least(Slashes(full))
     IN  /\ fnResult[1].owner = Some(Sub(full, 1, first - 1))
         /\ fnResult[1].repo = Some(Sub(full, first + 1, Len(full)))

(***************************************************************************)
(* The argument lists                                                      *)
(***************************************************************************)
ElementsOf(seq) == {seq[k] : k \in 1..Len(seq)}

UploadExtras == TokensOf(inputs["upload_args"], Words(inputs["upload_args"]))
DeployExtras == TokensOf(inputs["deploy_args"], Words(inputs["deploy_args"]))

\* C24: the upload gets versions, upload, --config and the path, the tokens
\* of upload_args in their order, then --message=<message>; the deploy gets
\* versions, deploy, the version id, -y, --config and the path, the tokens
\* of deploy_args in their order, then --message=<message>; no token of
\* upload_args is handed to the deploy and none of deploy_args to the upload.
C24_ArgumentLists ==
  (UploadCalls # {})
  => LET up == UploadExtras
         dep == DeployExtras
         path == Stripped(inputs["config"])
         last == <<"--message=" \o renderedMessage>>
     IN  /\ \A i \in UploadCalls :
              /\ execLog[i].args = <<"versions", "upload", "--config", path>> \o up \o last
              /\ ElementsOf(execLog[i].args) \cap ElementsOf(dep) = {}
         /\ \A j \in DeployCalls :
              /\ IsDefined(versionId)
              /\ execLog[j].args
                   = <<"versions", "deploy", versionId[1], "-y", "--config", path>>
                       \o dep \o last
              /\ ElementsOf(execLog[j].args) \cap ElementsOf(up) = {}

C24_Witness ==
  /\ pc = "done"
  /\ ~Failed
  /\ Len(execLog) = 3
  /\ execLog[2].args = <<"versions", "upload", "--config", "wrangler.toml",
                          "--env", "my prod", "--message=v= u=">>
  /\ execLog[3].args = <<"versions", "deploy", "3f", "-y", "--config", "wrangler.toml",
                          "--percentage", "50", "--message=v= u=">>

(***************************************************************************)
(* The default message without a commit message                            *)
(***************************************************************************)
\* branch@shortSha, or the one of the two that is there
PrefixPart(meta) ==
  LET b == BranchPart(meta)
      h == ShaPart(meta)
  IN  IF b # "" /\ h # "" THEN b \o "@" \o h ELSE b \o h

\* C25: when there is no commit message and a branch or a short sha is
\* there, the default message is the prefix alone, without the `: `.
C25_SeparatorOnlyBeforeMessage ==
  (/\ DefaultMessageDone
   /\ CommitPart(fnInput) = ""
   /\ PrefixPart(fnInput) # "")
  => fnResult[1] = PrefixPart(fnInput)

(***************************************************************************)
(* The end of the run                                                      *)
(***************************************************************************)
\* the first required input that is not supplied, "" when all are
FirstMissingInput ==
  IF inputs["api_token"] = "" THEN "api_token"
  ELSE IF inputs["wrangler_command"] = "" THEN "wrangler_command"
  ELSE IF inputs["config"] = "" THEN "config"
  ELSE ""

\* what holds of the failure status all along the run
OneOutcome ==
  /\ pc \in {"start", "git", "uploading", "deploying", "done"}
  /\ Len(failures) <= 1
  /\ Failed => pc = "done"
  /\ pc = "done" => running = {}
  /\ (pc = "done" /\ FirstMissingInput # "")
       => failures = <<"Input required and not supplied: " \o FirstMissingInput>>
  /\ uploadExit = Some(-1)
       => failures = <<"Unable to locate executable file: " \o Stripped(inputs["wrangler_command"])>>
  /\ deployExit = Some(-1)
       => failures = <<"Unable to locate executable file: " \o Stripped(inputs["wrangler_command"])>>

\* how far the run is from its end: the awaits still ahead, then the chunks
\* the running process may still write
StepsAhead ==
  LET awaits == CASE pc = "start" -> 4
                  [] pc = "git" -> 3
                  [] pc = "uploading" -> 2
                  [] pc = "deploying" -> 1
                  [] OTHER -> 0
  IN  awaits * (MaxChunks + 1) + (MaxChunks - chunks)

\* C26: every step of the run brings it nearer to its end, so a run whose
\* processes all exit comes to its end; it ends with no fatal status or
\* with exactly one; an error raised on the way (a required input that is
\* missing, a process that cannot be started) is reported as the fatal
\* status with its message and does not leave the run.
C26_RunTerminates ==
  [][/\ StepsAhead' < StepsAhead
     /\ StepsAhead' >= 0
     /\ OneOutcome'
     /\ pc # "done"]_vars

C26_Witness ==
  /\ pc = "done"
  /\ uploadExit = Some(-1)
  /\ failures = <<"Unable to locate executable file: npx wrangler">>
  /\ running = {}

\* C27: a fatal status and a published output never go together: with the
\* fatal status set no output is set, and an output is set only in the last
\* step of a run that ends without fatal status; a deploy that exits
\* non-zero leaves the version id it was given unpublished.
C27_NoOutputOnFailure ==
  /\ Failed => \A n \in OutputNames : ~Published(n)
  /\ (\E n \in OutputNames : Published(n)) => (pc = "done" /\ ~Failed)
  /\ (IsDefined(deployExit) /\ deployExit # Some(0))
       => (/\ Truthy(versionId)
           /\ \E j \in DeployCalls : execLog[j].args[3] = versionId[1]
           /\ Failed
           /\ ~Published("version_id"))

C27_Witness ==
  /\ deployExit = Some(1)
  /\ versionId = Some("3f")
  /\ deployStdout = "see \"https://demo.example.dev/x\" now\n"
  /\ pc = "done"
  /\ Failed
  /\ \A n \in OutputNames : ~Published(n)

(***************************************************************************)
(* Extraction from the text the processes wrote                            *)
(***************************************************************************)
\* the chunks one after the other, as one text
RECURSIVE Concat(_)
Concat(written) ==
  IF written = <<>> THEN "" ELSE written[1] \o Concat(Tail(written))

InsertedFor(t, context, o) == ValueOfName(context, NameOf(Sub(t, o[1], o[2])), FALSE)

\* by how much the text after the occurrences occ of t has moved once each
\* is replaced by its value
RECURSIVE Shift(_, _, _)
Shift(t, context, occ) ==
  IF occ = {} THEN 0
  ELSE LET o == CHOOSE q \in occ : TRUE
       IN  Len(InsertedFor(t, context, o)) - (o[2] - o[1] + 1)
             + Shift(t, context, occ \ {o})

\* C29: rendering is one pass from left to right: the value of each
\* placeholder of the template stands in the result character for
\* character, at the place the placeholder had moved by the replacements
\* before it, also when the value itself holds placeholder text; the result
\* is exactly as long as these replacements make it.
C29_ValuesInsertedVerbatim ==
  IsDefined(rtResult)
  => LET occ == Occurrences(rtTemplate)
         at(o) == o[1] + Shift(rtTemplate, rtContext, {q \in occ : q[1] < o[1]})
     IN  /\ Len(rtResult[1]) = Len(rtTemplate) + Shift(rtTemplate, rtContext, occ)
         /\ \A o \in occ :
               LET value == InsertedFor(rtTemplate, rtContext, o)
               IN  Sub(rtResult[1], at(o), at(o) + Len(value) - 1) = value

\* the result still holds a placeholder, and rendering it again changes it
C29_Witness ==
  /\ rtTemplate = "{{x}}"
  /\ rtContext = [x |-> Some("{{y}}"), y |-> Some("}}")]
  /\ rtResult = Some("{{y}}")
  /\ Occurrences(rtResult[1]) # {}
  /\ renderTemplate(rtResult[1], rtContext) = "}}"

(***************************************************************************)
(* What splitArgs leaves out                                               *)
(***************************************************************************)
\* raw from i on without its delimiting quotes and its separators
RECURSIVE KeptFrom(_, _, _)
KeptFrom(raw, qs, i) ==
  IF i > Len(raw) THEN ""
  ELSE (IF IsDelimiter(raw, qs, i) \/ IsSeparator(raw, qs, i) THEN "" ELSE Ch(raw, i))
         \o KeptFrom(raw, qs, i + 1)

\* C30: no token of splitArgs is the empty string; the tokens, one after
\* the other, are the input without its separating whitespace and without
\* the quote characters that open or close a quoted run, so no delimiting
\* quote stands in a token; there are at most as many tokens as words, and
\* a lone "" or '' gives none.
C30_NoEmptyTokenNoDelimiter ==
  SplitDone =>
    LET tokens == fnResult[1] IN
    /\ \A k \in 1..Len(tokens) : tokens[k] # ""
    /\ Concat(tokens) = KeptFrom(fnInput, QuoteStates(fnInput, <<"">>), 1)
    /\ Len(tokens) <= Cardinality(Words(fnInput))
    /\ fnInput \in {"\"\"", "''"} => tokens = <<>>

\* two words, one token
C30_Witness ==
  /\ SplitDone
  /\ fnInput = "a ''"
  /\ Cardinality(Words(fnInput)) = 2
  /\ fnResult[1] = <<"a">>

====
